---- MODULE Spec2Model ----
(***************************************************************************)
(* A model of the notebook CSCA5622_final_HaoYu_v1.ipynb: the cells that   *)
(* preprocess the digits dataset (MinMaxScaler.fit_transform followed by a *)
(* stratified train_test_split), train and score three classifiers,        *)
(* compute the SVM's confusion matrix, and run GridSearchCV over the SVM   *)
(* parameter grid on parallel workers.  The classifiers themselves are     *)
(* opaque: what a fitted model predicts, and what a (combination, fold)    *)
(* fit scores, is a nondeterministic choice.  Real numbers are exact       *)
(* rationals <<numerator, denominator>>; 0/0 stands for NaN.               *)
(***************************************************************************)
EXTENDS Integers, Sequences, FiniteSets, TLC

VARIABLES
    pc,             \* the cell the notebook run is at
    X, y,           \* the dataset: rows of pixel values, one label per row
    bound,          \* the names the notebook's namespace has bound so far
    console,        \* what Step 3 printed: the missing-value count of X
    scaler,         \* the MinMaxScaler's fitted attributes
    X_scaled,       \* the scaled matrix
    X_train, X_test, y_train, y_test,
    models,         \* name -> whether that classifier has been fitted
    results,        \* name -> accuracy, for the models scored so far
    y_pred,         \* the predictions of the last model scored
    y_pred_svm,     \* the SVM's predictions of Step 6
    cm,             \* the confusion matrix of Step 6
    error,          \* the exception that ended the run, or "none"
    fold_score,     \* the score each (combination, fold) fit yields
    next_task,      \* the next task the parallel backend dispatches
    running,        \* the tasks workers are executing
    out,            \* the slot of each task's score
    fit_count,      \* how many times each task has been executed
    cv_results,     \* mean_test_score per combination, once reduced
    best_index,     \* GridSearchCV.best_index_
    refits          \* fits of the best estimator on the whole of Train

pipeVars == <<pc, X, y, bound, console, scaler, X_scaled, X_train, X_test,
              y_train, y_test, models, results, y_pred, y_pred_svm, cm, error>>
gridVars == <<fold_score, next_task, running, out, fit_count,
              cv_results, best_index, refits>>
vars == <<pipeVars, gridVars>>

(***************************************************************************)
(* Bounds of the model.                                                    *)
(***************************************************************************)
MaxSamples == 7
MaxPrepSamples == 4
NWorkers == 2
MaxScore == 2

\* Pixel values and labels the modelled datasets draw from (the real data
\* has pixels 0..16 and labels 0..9), and the feature columns modelled.
LabelValues == {0, 1}
PipeColumns == {1}
PipePixels == {0, 1}
PrepColumns == {1, 2}
PrepPixels == {0, 1, 2}

NaN == 0 - 1

(***************************************************************************)
(* Exact rational arithmetic.                                              *)
(***************************************************************************)
Abs(a) == IF a < 0 THEN 0 - a ELSE a

RECURSIVE GCD(_, _)
GCD(a, b) == IF b = 0 THEN a ELSE GCD(b, a % b)

Sign(a) == IF a > 0 THEN 1 ELSE IF a < 0 THEN 0 - 1 ELSE 0

Rat(n, d) ==
    IF d = 0 THEN <<Sign(n), 0>>
    ELSE LET g == GCD(Abs(n), Abs(d))
         IN  <<(Sign(d) * n) \div g, Abs(d) \div g>>

NaNRat == <<0, 0>>
IsNaN(r) == r = NaNRat
IsFinite(r) == r[2] # 0

RatMul(a, b) == Rat(a[1] * b[1], a[2] * b[2])
RatAdd(a, b) == Rat(a[1] * b[2] + b[1] * a[2], a[2] * b[2])
RatNeg(a) == <<0 - a[1], a[2]>>
RatSub(a, b) == RatAdd(a, RatNeg(b))
RatInv(a) == Rat(a[2], a[1])
RatLeq(a, b) == IsFinite(a) /\ IsFinite(b) /\ a[1] * b[2] <= b[1] * a[2]

SetMin(S) == CHOOSE m \in S : \A x \in S : m <= x
SetMax(S) == CHOOSE m \in S : \A x \in S : x <= m

RECURSIVE SumOver(_, _)
SumOver(f, S) ==
    IF S = {} THEN 0
    ELSE LET x == CHOOSE e \in S : TRUE IN f[x] + SumOver(f, S \ {x})

(***************************************************************************)
(* Datasets.  A row is a function from the columns to pixel values; rows   *)
(* are enumerated up to their order (sorted by label, then pixels), since  *)
(* the split draws its rows by random permutation and nothing else here    *)
(* depends on the position of a row.                                       *)
(***************************************************************************)
RECURSIVE RowKey(_, _, _)
RowKey(row, cols, base) ==
    IF cols = {} THEN 0
    ELSE LET c == SetMax(cols)
         IN  (row[c] + 1) + base * RowKey(row, cols \ {c}, base)

SampleKey(row, label, cols) ==
    RowKey(row, cols, 20) + label * 20 * 20 * 20

Datasets(cols, pixels, labels, maxn) ==
    UNION { { d \in [1..n -> [row : [cols -> pixels], label : labels]] :
                \A i \in 1..(n - 1) :
                    SampleKey(d[i].row, d[i].label, cols)
                        <= SampleKey(d[i + 1].row, d[i + 1].label, cols) }
            : n \in 1..maxn }

Columns == DOMAIN X[1]
Rows == DOMAIN X

\* X.isnull().sum().sum()
IsNull(M) == Cardinality({ <<i, c>> \in (DOMAIN M) \X (DOMAIN M[1]) : M[i][c] = NaN })

(***************************************************************************)
(* sklearn.preprocessing.MinMaxScaler, feature_range = (0, 1).             *)
(***************************************************************************)
ToRat(v) == IF v = NaN THEN NaNRat ELSE <<v, 1>>

\* np.nanmin / np.nanmax over the rows being fitted: NaN entries are
\* disregarded, an all-NaN column yields NaN.
ColumnValues(M, fitRows, c) == { M[i][c] : i \in fitRows } \ {NaN}

DataMin(M, fitRows, c) ==
    IF ColumnValues(M, fitRows, c) = {} THEN NaNRat
    ELSE <<SetMin(ColumnValues(M, fitRows, c)), 1>>

DataMax(M, fitRows, c) ==
    IF ColumnValues(M, fitRows, c) = {} THEN NaNRat
    ELSE <<SetMax(ColumnValues(M, fitRows, c)), 1>>

\* _handle_zeros_in_scale: a zero range is replaced by 1.
HandleZerosUnguarded(range) == range
HandleZerosInScale(range) == IF range = <<0, 1>> THEN <<1, 1>> ELSE range

ScalerFit(M, fitRows) ==
    [c \in DOMAIN M[1] |->
        LET lo == DataMin(M, fitRows, c)
            hi == DataMax(M, fitRows, c)
            scale == RatInv(HandleZerosInScale(RatSub(hi, lo)))
        IN  [data_min |-> lo, data_max |-> hi, scale |-> scale,
             min |-> RatSub(<<0, 1>>, RatMul(lo, scale))]]

\* X * scale_ + min_
ScalerTransform(sc, M) ==
    [i \in DOMAIN M |->
        [c \in DOMAIN M[1] |-> RatAdd(RatMul(ToRat(M[i][c]), sc[c].scale), sc[c].min)]]

(***************************************************************************)
(* sklearn.model_selection.train_test_split(test_size=0.2, stratify=y),   *)
(* that is one draw of StratifiedShuffleSplit.                             *)
(***************************************************************************)
\* _validate_shuffle_split: n_test = ceil(0.2 * n), n_train = n - n_test.
NTest(n) == (2 * n + 9) \div 10
NTrain(n) == n - NTest(n)

Classes(labels) == { labels[i] : i \in DOMAIN labels }
ClassIndices(labels, c) == { i \in DOMAIN labels : labels[i] = c }
ClassCounts(labels) ==
    [c \in Classes(labels) |-> Cardinality(ClassIndices(labels, c))]

\* The ValueErrors train_test_split raises instead of splitting.
SplitRaises(labels) ==
    LET n == Cardinality(DOMAIN labels)
        k == Cardinality(Classes(labels))
    IN  \/ NTrain(n) = 0
        \/ \E c \in Classes(labels) : ClassCounts(labels)[c] < 2
        \/ NTrain(n) < k
        \/ NTest(n) < k

\* _approximate_mode: the draws per class closest to the class proportions;
\* the classes that share a remainder are picked among by the generator.
RECURSIVE AddRemainders(_, _, _, _)
AddRemainders(floored, rem, need, vals) ==
    IF need = 0 \/ vals = {} THEN {floored}
    ELSE LET v == SetMax(vals)
             inds == { c \in DOMAIN rem : rem[c] = v }
             add_now == IF Cardinality(inds) < need THEN Cardinality(inds) ELSE need
         IN  UNION { AddRemainders(
                        [c \in DOMAIN floored |->
                            IF c \in S THEN floored[c] + 1 ELSE floored[c]],
                        rem, need - add_now, vals \ {v})
                     : S \in { T \in SUBSET inds : Cardinality(T) = add_now } }

ApproximateMode(class_counts, n_draws) ==
    LET total == SumOver(class_counts, DOMAIN class_counts)
        floored == [c \in DOMAIN class_counts |-> (class_counts[c] * n_draws) \div total]
        rem == [c \in DOMAIN class_counts |-> (class_counts[c] * n_draws) % total]
        need == n_draws - SumOver(floored, DOMAIN floored)
    IN  AddRemainders(floored, rem, need, { rem[c] : c \in DOMAIN rem })

RECURSIVE SortedSeq(_)
SortedSeq(S) ==
    IF S = {} THEN <<>>
    ELSE <<SetMin(S)>> \o SortedSeq(S \ {SetMin(S)})

\* rng.permutation of one class's indices
ClassPermutations(S) ==
    { [k \in 1..Cardinality(S) |-> p[SortedSeq(S)[k]]] : p \in Permutations(S) }

\* perm_indices_class_i[:n_i[i]] and perm_indices_class_i[n_i[i]:n_i[i] + t_i[i]]
TrainSlice(perm, ni) == { perm[k] : k \in 1..ni }
TestSliceFromStart(perm, ni, ti) == { perm[k] : k \in 1..ti }
TestSlice(perm, ni, ti) == { perm[k] : k \in (ni + 1)..(ni + ti) }

RECURSIVE StratifiedDraws(_, _, _, _)
StratifiedDraws(labels, cs, n_i, t_i) ==
    IF cs = {} THEN {<<{}, {}>>}
    ELSE LET c == CHOOSE x \in cs : TRUE
         IN  { <<r[1] \cup TrainSlice(p, n_i[c]),
                 r[2] \cup TestSlice(p, n_i[c], t_i[c])>>
               : r \in StratifiedDraws(labels, cs \ {c}, n_i, t_i),
                 p \in ClassPermutations(ClassIndices(labels, c)) }

\* Every <<train, test>> pair of index sets the split can return.
StratifiedShuffleSplit(labels) ==
    LET n == Cardinality(DOMAIN labels)
        counts == ClassCounts(labels)
    IN  UNION { UNION { StratifiedDraws(labels, Classes(labels), n_i, t_i)
                        : t_i \in ApproximateMode(
                              [c \in DOMAIN counts |-> counts[c] - n_i[c]], NTest(n)) }
                : n_i \in ApproximateMode(counts, NTrain(n)) }

\* _safe_indexing of one array by the indices of a subset
Take(arr, idx) == [i \in idx |-> arr[i]]
TakeLabels(arr, idx) == Take(arr, idx)

(***************************************************************************)
(* The classifiers and the metrics.                                        *)
(***************************************************************************)
ModelOrder == <<"SVM", "KNN", "Random Forest">>
ModelNames == { ModelOrder[k] : k \in DOMAIN ModelOrder }

HasNonFinite(M) == \E i \in DOMAIN M : \E c \in DOMAIN M[i] : ~IsFinite(M[i][c])

\* What model.fit(X_train, y_train) can do: SVC and KNeighborsClassifier
\* reject non-finite input, SVC rejects a single-class target, and whether
\* RandomForestClassifier takes NaN depends on the installed library.
FitOutcomes(name, Xtr, ytr) ==
    IF name = "SVM"
    THEN IF HasNonFinite(Xtr) \/ Cardinality(Classes(ytr)) < 2
         THEN {"ValueError"} ELSE {"ok"}
    ELSE IF name = "KNN"
    THEN IF HasNonFinite(Xtr) THEN {"ValueError"} ELSE {"ok"}
    ELSE IF HasNonFinite(Xtr) THEN {"ok", "ValueError"} ELSE {"ok"}

\* KNeighborsClassifier(n_neighbors=5).predict raises when it was fitted on
\* fewer than n_neighbors samples.
NNeighbors == 5
PredictRaises(name, Xtr) == name = "KNN" /\ Cardinality(DOMAIN Xtr) < NNeighbors

\* What a model fitted on ytr can predict for the rows of Xte.
Predictions(Xte, ytr) == [DOMAIN Xte -> Classes(ytr)]

\* accuracy_score(y_true, y_pred)
AccuracyScore(y_true, pred) ==
    Rat(Cardinality({ i \in DOMAIN y_true : y_true[i] = pred[i] }),
        Cardinality(DOMAIN y_true))

\* confusion_matrix(y_true, y_pred) with labels=None: the labels are the
\* sorted values that occur in y_true or y_pred, and entry [i][j] counts the
\* samples whose true label is the i-th of them and prediction the j-th.
UniqueLabels(y_true, pred) == SortedSeq(Classes(y_true) \cup Classes(pred))

ConfusionMatrix(y_true, pred) ==
    LET labels == UniqueLabels(y_true, pred)
    IN  [i \in DOMAIN labels |->
            [j \in DOMAIN labels |->
                Cardinality({ s \in DOMAIN y_true :
                                y_true[s] = labels[i] /\ pred[s] = labels[j] })]]

\* The model the next iteration of the training loop handles.
NextModel == ModelOrder[Cardinality(DOMAIN results) + 1]

(***************************************************************************)
(* The notebook's cells, Step 3 to Step 6.                                 *)
(***************************************************************************)
\* Step 3: print("Missing values in X:", X.isnull().sum().sum())
Step3_Explore ==
    /\ pc = "step3"
    /\ console' = IsNull(X)
    /\ pc' = "step4"
    /\ UNCHANGED <<X, y, bound, scaler, X_scaled, X_train, X_test, y_train, y_test,
                   models, results, y_pred, y_pred_svm, cm, error, gridVars>>

\* Step 4: scaler.fit_transform(X), then train_test_split(X_scaled, y, ...)
Step4_Preprocess ==
    /\ pc = "step4"
    /\ ~SplitRaises(y)
    /\ scaler' = ScalerFit(X, DOMAIN X)
    /\ X_scaled' = ScalerTransform(scaler', X)
    /\ \E split \in StratifiedShuffleSplit(y) :
          /\ X_train' = Take(X_scaled', split[1])
          /\ X_test' = Take(X_scaled', split[2])
          /\ y_train' = TakeLabels(y, split[1])
          /\ y_test' = TakeLabels(y, split[2])
    /\ bound' = bound \cup {"scaler", "X_scaled", "X_train", "X_test", "y_train", "y_test"}
    /\ pc' = "step5"
    /\ UNCHANGED <<X, y, console, models, results, y_pred, y_pred_svm, cm, error, gridVars>>

\* Step 4 when train_test_split raises: the scaled matrix is already bound.
Step4_SplitRaises ==
    /\ pc = "step4"
    /\ SplitRaises(y)
    /\ scaler' = ScalerFit(X, DOMAIN X)
    /\ X_scaled' = ScalerTransform(scaler', X)
    /\ bound' = bound \cup {"scaler", "X_scaled"}
    /\ error' = "ValueError"
    /\ pc' = "aborted"
    /\ UNCHANGED <<X, y, console, X_train, X_test, y_train, y_test,
                   models, results, y_pred, y_pred_svm, cm, gridVars>>

\* Step 5, before the loop: models = {...}; results = {}
Step5_Construct ==
    /\ pc = "step5"
    /\ models' = [m \in ModelNames |-> "unfitted"]
    /\ results' = <<>>
    /\ bound' = bound \cup {"models", "results"}
    /\ pc' = "step5_loop"
    /\ UNCHANGED <<X, y, console, scaler, X_scaled, X_train, X_test, y_train, y_test,
                   y_pred, y_pred_svm, cm, error, gridVars>>

\* One iteration of the loop: fit, predict, accuracy_score, results[name] = accuracy
Step5_TrainModel ==
    /\ pc = "step5_loop"
    /\ "ok" \in FitOutcomes(NextModel, X_train, y_train)
    /\ ~PredictRaises(NextModel, X_train)
    /\ models' = [models EXCEPT ![NextModel] = "fitted"]
    /\ \E pred \in Predictions(X_test, y_train) :
          /\ y_pred' = pred
          /\ results' = [m \in DOMAIN results \cup {NextModel} |->
                            IF m = NextModel THEN AccuracyScore(y_test, pred)
                            ELSE results[m]]
    /\ bound' = bound \cup {"y_pred"}
    /\ pc' = IF Cardinality(DOMAIN results') = Len(ModelOrder) THEN "step6" ELSE "step5_loop"
    /\ UNCHANGED <<X, y, console, scaler, X_scaled, X_train, X_test, y_train, y_test,
                   y_pred_svm, cm, error, gridVars>>

\* An iteration whose model.fit raises: nothing catches it, the cell ends.
Step5_FitRaises ==
    /\ pc = "step5_loop"
    /\ "ValueError" \in FitOutcomes(NextModel, X_train, y_train)
    /\ error' = "ValueError"
    /\ pc' = "aborted"
    /\ UNCHANGED <<X, y, bound, console, scaler, X_scaled, X_train, X_test, y_train, y_test,
                   models, results, y_pred, y_pred_svm, cm, gridVars>>

\* An iteration whose model.predict raises after a successful fit.
Step5_PredictRaises ==
    /\ pc = "step5_loop"
    /\ "ok" \in FitOutcomes(NextModel, X_train, y_train)
    /\ PredictRaises(NextModel, X_train)
    /\ models' = [models EXCEPT ![NextModel] = "fitted"]
    /\ error' = "ValueError"
    /\ pc' = "aborted"
    /\ UNCHANGED <<X, y, bound, console, scaler, X_scaled, X_train, X_test, y_train, y_test,
                   results, y_pred, y_pred_svm, cm, gridVars>>

\* Step 6: y_pred_svm = models["SVM"].predict(X_test); cm = confusion_matrix(...)
Step6_Evaluate ==
    /\ pc = "step6"
    /\ models["SVM"] = "fitted"
    /\ \E pred \in Predictions(X_test, y_train) :
          /\ y_pred_svm' = pred
          /\ cm' = ConfusionMatrix(y_test, pred)
    /\ bound' = bound \cup {"y_pred_svm", "cm"}
    /\ pc' = "step8"
    /\ UNCHANGED <<X, y, console, scaler, X_scaled, X_train, X_test, y_train, y_test,
                   models, results, y_pred, error, gridVars>>

(***************************************************************************)
(* Step 8: GridSearchCV(SVC(), param_grid, cv=3, n_jobs=-1).fit            *)
(***************************************************************************)
ParamC == <<"0.1", "1", "10">>
ParamGamma == <<"scale", "auto", "0.01", "0.001">>
ParamKernel == <<"rbf", "poly">>
NSplits == 3

\* ParameterGrid: the product of the value lists, keys in sorted order
\* (C, gamma, kernel), the last key varying fastest.
ParameterGridNoKernel ==
    [k \in 1..(Len(ParamC) * Len(ParamGamma)) |->
        [C |-> ParamC[((k - 1) \div Len(ParamGamma)) + 1],
         gamma |-> ParamGamma[((k - 1) % Len(ParamGamma)) + 1],
         kernel |-> ParamKernel[1]]]
ParameterGrid ==
    [k \in 1..(Len(ParamC) * Len(ParamGamma) * Len(ParamKernel)) |->
        [C |-> ParamC[((k - 1) \div (Len(ParamGamma) * Len(ParamKernel))) + 1],
         gamma |-> ParamGamma[(((k - 1) \div Len(ParamKernel)) % Len(ParamGamma)) + 1],
         kernel |-> ParamKernel[((k - 1) % Len(ParamKernel)) + 1]]]

NCandidates == Len(ParameterGrid)
Candidates == 1..NCandidates
Folds == 1..NSplits

\* The tasks are product(candidate_params, cv splits), in that order.
NTasks == NCandidates * NSplits
Tasks == 1..NTasks
TaskOf(cand, fold) == (cand - 1) * NSplits + fold
CandidateOf(t) == ((t - 1) \div NSplits) + 1
FoldOf(t) == ((t - 1) % NSplits) + 1

Pending == 0 - 1
Completed == { t \in Tasks : fit_count[t] > 0 }

\* The slot of the output list a finished task's score goes to: the list is
\* in task order, whatever the order the workers finish in.
SlotByCompletion(t) == Cardinality(Completed) + 1
SlotOf(t) == t

\* Every task has been dispatched and has returned.
ReadyAfterDispatch == next_task > NTasks
AllTasksDone == next_task > NTasks /\ running = {}

\* mean_test_score, kept as the sum of the fold scores over NSplits.
MeanTestScore(scores) ==
    [c \in Candidates |->
        SumOver([f \in Folds |-> scores[TaskOf(c, f)]], Folds)]

\* best_index_ = rank_test_score.argmin(), the ranks being
\* rankdata(-mean_test_score, method="min"): the first of the best means.
BestIndexLast(means) ==
    SetMax({ c \in DOMAIN means : \A d \in DOMAIN means : means[d] <= means[c] })
BestIndex(means) ==
    SetMin({ c \in DOMAIN means : \A d \in DOMAIN means : means[d] <= means[c] })

\* A worker is free: the backend hands it the next task.
GS_Dispatch ==
    /\ pc = "step8"
    /\ next_task <= NTasks
    /\ Cardinality(running) < NWorkers
    /\ running' = running \cup {next_task}
    /\ next_task' = next_task + 1
    /\ UNCHANGED <<pipeVars, fold_score, out, fit_count, cv_results, best_index, refits>>

\* A worker finishes _fit_and_score of its task.
GS_Complete ==
    /\ pc = "step8"
    /\ \E t \in running :
          /\ out' = [out EXCEPT ![SlotOf(t)] = fold_score[t]]
          /\ fit_count' = [fit_count EXCEPT ![t] = @ + 1]
          /\ running' = running \ {t}
    /\ UNCHANGED <<pipeVars, fold_score, next_task, cv_results, best_index, refits>>

\* The results are reduced, the best estimator refitted, best_params_ printed.
GS_Reduce ==
    /\ pc = "step8"
    /\ AllTasksDone
    /\ cv_results' = MeanTestScore(out)
    /\ best_index' = BestIndex(cv_results')
    /\ refits' = refits + 1
    /\ pc' = "done"
    /\ UNCHANGED <<X, y, bound, console, scaler, X_scaled, X_train, X_test, y_train, y_test,
                   models, results, y_pred, y_pred_svm, cm, error,
                   fold_score, next_task, running, out, fit_count>>

best_params == ParameterGrid[best_index]

(***************************************************************************)
(* Initial states and specifications.                                      *)
(***************************************************************************)
\* Before Step 8 nothing of the grid search exists.
GridIdle ==
    /\ fold_score = <<>>
    /\ next_task = 1
    /\ running = {}
    /\ out = <<>>
    /\ fit_count = <<>>
    /\ cv_results = <<>>
    /\ best_index = 0
    /\ refits = 0

\* The notebook after Step 1 and Step 2: X and y are loaded.
Loaded(cols, pixels, maxn) ==
    /\ \E d \in Datasets(cols, pixels, LabelValues, maxn) :
          /\ X = [i \in DOMAIN d |-> d[i].row]
          /\ y = [i \in DOMAIN d |-> d[i].label]
    /\ pc = "step3"
    /\ bound = {"X", "y"}
    /\ console = 0
    /\ scaler = <<>>
    /\ X_scaled = <<>>
    /\ X_train = <<>>
    /\ X_test = <<>>
    /\ y_train = <<>>
    /\ y_test = <<>>
    /\ models = <<>>
    /\ results = <<>>
    /\ y_pred = <<>>
    /\ y_pred_svm = <<>>
    /\ cm = <<>>
    /\ error = "none"

Init == Loaded(PipeColumns, PipePixels, MaxSamples) /\ GridIdle

Next ==
    \/ Step3_Explore
    \/ Step4_Preprocess
    \/ Step4_SplitRaises
    \/ Step5_Construct
    \/ Step5_TrainModel
    \/ Step5_FitRaises
    \/ Step5_PredictRaises
    \/ Step6_Evaluate

Spec == Init /\ [][Next]_vars

\* Datasets in which feature values may be missing.
InitMissing == Loaded(PipeColumns, PipePixels \cup {NaN}, MaxSamples) /\ GridIdle
SpecMissing == InitMissing /\ [][Next]_vars

\* Step 3 and Step 4 alone, on datasets of several feature columns.
InitPrep == Loaded(PrepColumns, PrepPixels, MaxPrepSamples) /\ GridIdle
NextPrep ==
    \/ Step3_Explore
    \/ Step4_Preprocess
    \/ Step4_SplitRaises
SpecPrep == InitPrep /\ [][NextPrep]_vars

\* The notebook at Step 8, Steps 1 to 7 having run on an eight-row dataset
\* whose three models all predicted Test perfectly.
EntryX == <<(1 :> 0), (1 :> 2), (1 :> 1), (1 :> 3), (1 :> 0), (1 :> 1), (1 :> 2), (1 :> 3)>>
EntryY == <<0, 0, 0, 0, 1, 1, 1, 1>>
EntrySplit == CHOOSE sp \in StratifiedShuffleSplit(EntryY) : TRUE

AtStep8 ==
    /\ X = EntryX
    /\ y = EntryY
    /\ pc = "step8"
    /\ bound = {"X", "y", "scaler", "X_scaled", "X_train", "X_test", "y_train", "y_test",
                "models", "results", "y_pred", "y_pred_svm", "cm"}
    /\ console = IsNull(X)
    /\ scaler = ScalerFit(X, DOMAIN X)
    /\ X_scaled = ScalerTransform(scaler, X)
    /\ X_train = Take(X_scaled, EntrySplit[1])
    /\ X_test = Take(X_scaled, EntrySplit[2])
    /\ y_train = TakeLabels(y, EntrySplit[1])
    /\ y_test = TakeLabels(y, EntrySplit[2])
    /\ models = [m \in ModelNames |-> "fitted"]
    /\ results = [m \in ModelNames |-> AccuracyScore(y_test, y_test)]
    /\ y_pred = y_test
    /\ y_pred_svm = y_test
    /\ cm = ConfusionMatrix(y_test, y_test)
    /\ error = "none"

\* The scores the fits yield, a function of (combination, fold) fixed by the
\* data: combination a scores sa on the three folds, combination b scores lb
\* on each, every other combination scores base.
ScoreTable(a, sa, b, lb, base) ==
    [t \in Tasks |->
        IF CandidateOf(t) = a THEN sa[FoldOf(t)]
        ELSE IF CandidateOf(t) = b THEN lb ELSE base]

ScoreLevels == 0..MaxScore

ReduceTables(levels) ==
    { ScoreTable(a, sa, b, lb, base) :
        a \in Candidates, sa \in [Folds -> levels], b \in Candidates,
        lb \in levels, base \in {0, 1} }

ParallelTables ==
    { ScoreTable(p[1], sa, p[2], 1, 0) :
        p \in {<<5, 17>>, <<17, 5>>},
        sa \in {<<2, 0, 1>>, <<1, 1, 1>>, <<0, 1, 0>>} }

\* grid_search.fit is entered: nothing dispatched yet.
InitGrid ==
    /\ AtStep8
    /\ fold_score \in ParallelTables
    /\ next_task = 1
    /\ running = {}
    /\ out = [t \in Tasks |-> Pending]
    /\ fit_count = [t \in Tasks |-> 0]
    /\ cv_results = <<>>
    /\ best_index = 0
    /\ refits = 0

NextGrid ==
    \/ GS_Dispatch
    \/ GS_Complete
    \/ GS_Reduce

SpecGrid == InitGrid /\ [][NextGrid]_vars

\* Every dispatched fit returns and the backend keeps its workers busy.
FairSpecGrid == InitGrid /\ [][NextGrid]_vars /\ WF_vars(NextGrid)

\* The reduction alone, after a run that executed the tasks one by one in
\* enumeration order, for the score tables of ReduceTables.
InitReduce ==
    /\ AtStep8
    /\ fold_score \in ReduceTables(ScoreLevels)
    /\ next_task = NTasks + 1
    /\ running = {}
    /\ out = fold_score
    /\ fit_count = [t \in Tasks |-> 1]
    /\ cv_results = <<>>
    /\ best_index = 0
    /\ refits = 0

NextReduce == GS_Reduce

SpecReduce == InitReduce /\ [][NextReduce]_vars

(***************************************************************************)
(* The claims.                                                             *)
(***************************************************************************)
TrainIdx == DOMAIN X_train
TestIdx == DOMAIN X_test
SplitDone == "X_train" \in bound

\* C1: the scaler's per-column min and max come from the Train rows only:
\* once the split exists, every column's fitted data_min and data_max are
\* the min and max of that column over Train, so no Test row contributes.
C1_ScalerFittedOnTrainOnly ==
    SplitDone =>
        \A c \in Columns :
            /\ scaler[c].data_min = DataMin(X, TrainIdx, c)
            /\ scaler[c].data_max = DataMax(X, TrainIdx, c)

\* C2: the split is a partition of the dataset: Train and Test are
\* disjoint, together they are all the rows, Test has ceil(0.2 * n) rows and
\* Train the rest (1437 and 360 of 1797), and every row of Train and Test
\* carries the label and the scaled features of the row it was drawn from.
C2_SplitIsPartition ==
    /\ NTest(1797) = 360
    /\ NTrain(1797) = 1437
    /\ SplitDone =>
        LET n == Len(X)
        IN  /\ TrainIdx \cap TestIdx = {}
            /\ TrainIdx \cup TestIdx = 1..n
            /\ 5 * Cardinality(TestIdx) >= n
            /\ 5 * (Cardinality(TestIdx) - 1) < n
            /\ Cardinality(TrainIdx) = n - Cardinality(TestIdx)
            /\ DOMAIN y_train = TrainIdx
            /\ DOMAIN y_test = TestIdx
            /\ \A i \in TrainIdx : y_train[i] = y[i] /\ X_train[i] = X_scaled[i]
            /\ \A i \in TestIdx : y_test[i] = y[i] /\ X_test[i] = X_scaled[i]

\* A split of a two-class dataset, two rows of it in Test.
C2_Witness ==
    /\ SplitDone
    /\ Cardinality(Classes(y)) = 2
    /\ Cardinality(TestIdx) = 2
    /\ Cardinality(Classes(y_test)) = 2

C4_TwelveCombinations ==
    pc = "done" =>
        /\ NCandidates = 12
        /\ SumOver(fit_count, DOMAIN fit_count) = 36

\* C4, amended: the grid holds 3 x 4 x 2 = 24 distinct combinations and the
\* search performs 24 x 3 = 72 fit/score operations, no (combination, fold)
\* more than once and, when the search is done, each exactly once.
C4_TwentyFourCombinations ==
    /\ NCandidates = 24
    /\ { <<ParameterGrid[k].C, ParameterGrid[k].gamma, ParameterGrid[k].kernel>> :
            k \in Candidates }
         = { <<ParamC[a], ParamGamma[b], ParamKernel[c]>> :
            a \in DOMAIN ParamC, b \in DOMAIN ParamGamma, c \in DOMAIN ParamKernel }
    /\ Cardinality({ <<a, b, c>> \in (DOMAIN ParamC) \X (DOMAIN ParamGamma)
                                        \X (DOMAIN ParamKernel) : TRUE }) = 24
    /\ \A t \in DOMAIN fit_count : fit_count[t] <= 1
    /\ pc = "done" =>
          /\ \A c \in Candidates : \A f \in 1..3 :
                fit_count[TaskOf(c, f)] = 1 /\ out[TaskOf(c, f)] # Pending
          /\ SumOver(fit_count, DOMAIN fit_count) = 72

\* The search is done and 72 fit/score operations have run.
C4_Witness ==
    /\ pc = "done"
    /\ SumOver(fit_count, DOMAIN fit_count) = 72
    /\ best_index \in Candidates

FoldSum(c) == SumOver([f \in Folds |-> fold_score[TaskOf(c, f)]], Folds)

\* C5: the reported combination has the highest mean score over the three
\* folds, and of the combinations that tie for it, it is the first in the
\* grid's enumeration order.
C5_BestIsFirstMaximum ==
    pc = "done" =>
        /\ best_index \in Candidates
        /\ \A c \in Candidates :
              /\ FoldSum(c) <= FoldSum(best_index)
              /\ c < best_index => FoldSum(c) < FoldSum(best_index)

\* The reduction picked a winner that is not the grid's first combination
\* and that a later combination, with other fold scores, ties with.
C5_Witness ==
    /\ pc = "done"
    /\ best_index > 1
    /\ \E c \in Candidates :
          /\ c > best_index
          /\ FoldSum(c) = FoldSum(best_index)
          /\ \E f \in Folds : fold_score[TaskOf(c, f)] # fold_score[TaskOf(best_index, f)]

\* C6: whatever the order the workers finish in, a slot holds nothing but
\* the score of its own (combination, fold), and the search returns the
\* winner that a run of the tasks one by one in enumeration order returns.
C6_ParallelEqualsSequential ==
    /\ \A t \in Tasks :
          /\ out[t] \in {Pending, fold_score[t]}
          /\ (fit_count[t] = 0) = (out[t] = Pending)
    /\ pc = "done" =>
          /\ out = fold_score
          /\ best_index = BestIndex(MeanTestScore(fold_score))

\* A later task has delivered its score while an earlier one still runs.
C6_Witness ==
    \E t1 \in running : \E t2 \in Tasks :
        /\ t1 < t2
        /\ fit_count[t2] = 1
        /\ out[t2] = fold_score[t2]
        /\ fold_score[t2] # fold_score[t1]

\* C7: the search terminates with exactly one winning combination, whose C
\* is one of 0.1, 1, 10, and the reduction never runs before every
\* fit/score operation has completed.
C7_SearchTerminates ==
    /\ <>(pc = "done")
    /\ [](pc = "done" =>
            /\ best_index \in Candidates
            /\ best_params.C \in {"0.1", "1", "10"}
            /\ refits = 1)
    /\ [](best_index # 0 =>
            /\ running = {}
            /\ \A t \in Tasks : fit_count[t] = 1 /\ out[t] # Pending)

\* The search has ended with a winner whose C is 10.
C7_Witness ==
    /\ pc = "done"
    /\ best_index \in Candidates
    /\ best_params.C = "10"

\* C8: a model whose fit fails does not stop the others: when the training
\* cell has ended, every model that fits and predicts without error on
\* Train and Test has its accuracy in results.
C8_FitErrorDoesNotAbort ==
    (pc \in {"aborted", "step6", "step8"} /\ "models" \in bound) =>
        \A m \in ModelNames :
            (FitOutcomes(m, X_train, y_train) = {"ok"} /\ ~PredictRaises(m, X_train))
                => m \in DOMAIN results

\* C9: a dataset with a missing feature value ends the run at the
\* preprocessing step: past Step 4 the run is aborted, and no scaled matrix,
\* no split and no fitted model exists.
C9_MissingFailsFast ==
    (IsNull(X) > 0 /\ pc \notin {"step3", "step4"}) =>
        /\ pc = "aborted"
        /\ error # "none"
        /\ "X_scaled" \notin bound
        /\ "X_train" \notin bound
        /\ "models" \notin bound

NumLabels == 10
TrueCount(label) == Cardinality({ s \in DOMAIN y_test : y_test[s] = label })

\* C10: the confusion matrix is a 10x10 grid indexed by the labels 0..9:
\* entry (i, j) counts the Test samples of true label i predicted j, row i
\* sums to the number of Test samples of true label i, and all the entries
\* sum to the size of Test.
C10_ConfusionMatrixTenByTen ==
    "cm" \in bound =>
        /\ DOMAIN cm = 1..NumLabels
        /\ \A i \in DOMAIN cm :
              /\ DOMAIN cm[i] = 1..NumLabels
              /\ \A j \in DOMAIN cm[i] :
                    cm[i][j] = Cardinality({ s \in DOMAIN y_test :
                                    y_test[s] = i - 1 /\ y_pred_svm[s] = j - 1 })
              /\ SumOver(cm[i], DOMAIN cm[i]) = TrueCount(i - 1)
        /\ SumOver([i \in DOMAIN cm |-> SumOver(cm[i], DOMAIN cm[i])], DOMAIN cm)
              = Cardinality(DOMAIN y_test)

====
